---------------------------- MODULE Spec2Model ----------------------------
(***************************************************************************)
(* Athena - Market Intelligence Aggregator.                                *)
(*                                                                         *)
(* A model of the basic recommendation engine                              *)
(* (services/engine: Engine.GenerateRecommendations, detectMarketRegime,   *)
(* getTrackedTickers, getTickerConfidenceScore, calculateAllocation) and   *)
(* of the confidence scorer it calls (services/analysis:                   *)
(* CalculateConfidence, GetTechnicalSignals, FetchCreatorAccuracy).        *)
(*                                                                         *)
(* float64 values are modelled as exact rationals [n, d] in lowest terms,  *)
(* so every comparison against a literal threshold (0.4, 0.6, 0.8, 2.0,    *)
(* 0.5) is decided exactly; rounding error of the binary format is not     *)
(* modelled.                                                               *)
(***************************************************************************)
EXTENDS Integers, Sequences, FiniteSets, TLC

VARIABLES
    pc,              \* position of the running function
    engine,          \* the *Engine built by NewEngine (its three thresholds)
    db,              \* what the database answers to the engine's queries
    ctxDone,         \* the context.Context passed to the engine is cancelled
    budget,          \* GenerateRecommendations / calculateAllocation budget
    regime,          \* the MarketRegime in use
    vix,             \* the VIX level returned beside the regime
    tickers,         \* result of getTrackedTickers
    idx,             \* position of the range loop over tickers
    recommendations, \* the slice GenerateRecommendations builds and returns
    err,             \* the error GenerateRecommendations returns
    trace,           \* the engine functions called so far in this run
    fetched,         \* the rows read for each ticker the loop has gone through
    ticker,          \* calculateAllocation's ticker argument
    score,           \* a ConfidenceScore (CalculateConfidence's result)
    allocation,      \* an AllocationResult (calculateAllocation's result)
    inputs,          \* CalculateConfidence's ConfidenceInputs argument
    weights,         \* CalculateConfidence's ConfidenceWeights argument
    indicators,      \* GetTechnicalSignals' six arguments
    returnedSignals, \* the []string GetTechnicalSignals returned
    stored           \* the recommendations handed to StoreRecommendation, in order

vars == <<pc, engine, db, ctxDone, budget, regime, vix, tickers, idx,
          recommendations, err, trace, fetched, ticker, score, allocation,
          inputs, weights, indicators, returnedSignals, stored>>

---------------------------------------------------------------------------
(* Bounds of the model.                                                    *)

\* Scores handed to calculateAllocation are the rationals n/d, d <= MaxScoreDen.
MaxScoreDen == 10
\* Budgets handed to calculateAllocation include every dollar amount 0..MaxBudget.
MaxBudget == 3
\* CalculateConfidence is given sentiment maps of at most MaxCreators creators,
MaxCreators == 2
\* at most MaxSignals technical signals,
MaxSignals == 2
\* and volumes 0..MaxVolume.
MaxVolume == 3
\* GetTechnicalSignals is given SMA50, SMA200 and price values 0..MaxLevel.
MaxLevel == 2

---------------------------------------------------------------------------
(* float64 as exact rationals.                                             *)

Abs(x) == IF x < 0 THEN -x ELSE x

RECURSIVE GCD(_, _)
GCD(a, b) == IF b = 0 THEN a ELSE GCD(b, a % b)

\* The rational n/d (d > 0) in lowest terms.
Rat(n, d) == LET g == GCD(Abs(n), d) IN [n |-> n \div g, d |-> d \div g]

Zero == Rat(0, 1)
One == Rat(1, 1)

RLess(a, b) == a.n * b.d < b.n * a.d
RLeq(a, b) == a.n * b.d <= b.n * a.d
RAdd(a, b) == Rat(a.n * b.d + b.n * a.d, a.d * b.d)
RSub(a, b) == Rat(a.n * b.d - b.n * a.d, a.d * b.d)
RMul(a, b) == Rat(a.n * b.n, a.d * b.d)
\* a / b for b > 0 (every division of the code is by a positive count or literal)
RDiv(a, b) == Rat(a.n * b.d, a.d * b.n)

\* The integer fmt prints for "%.0f": nearest, ties to even.
RoundHalfEven(r) ==
    LET q == (2 * r.n + r.d) \div (2 * r.d)
        tie == (2 * r.n + r.d) % (2 * r.d) = 0
    IN IF tie /\ q % 2 # 0 THEN q - 1 ELSE q

\* the number "%.0f%%" prints for x*100
Percent(x) == RoundHalfEven(RMul(x, Rat(100, 1)))

\* the number "%.2f" prints for x, in hundredths
Fixed2(x) == RoundHalfEven(RMul(x, Rat(100, 1)))

\* fmt.Sprintf of a format holding one verb: the format's literal text and the
\* number printed into it.
Sprintf(format, printed) == [format |-> format, arg |-> printed]

\* The zero value of a Go string field that was never set.
EmptyString == [format |-> "", arg |-> 0]

---------------------------------------------------------------------------
(* services/analysis: the confidence scorer.                               *)

\* func DefaultWeights() ConfidenceWeights
DefaultWeights ==
    [CreatorConsensus |-> Rat(30, 100), TechnicalAlignment |-> Rat(30, 100),
     VolumeConfirmation |-> Rat(20, 100), HistoricalAccuracy |-> Rat(20, 100)]

\* number of map entries whose value is label (the range loop with its switch)
CountValues(m, label) == Cardinality({k \in DOMAIN m : m[k] = label})

\* 1. Creator Consensus (a bug that gives a tie to the bullish side)
CreatorConsensus_tieBullish(sentiments) ==
    LET bullishCount == CountValues(sentiments, "bullish")
        bearishCount == CountValues(sentiments, "bearish")
        totalCreators == Cardinality(DOMAIN sentiments)
    IN IF totalCreators > 0
       THEN IF bullishCount >= bearishCount
            THEN [CreatorConsensus |-> Rat(bullishCount, totalCreators), Direction |-> "bullish"]
            ELSE [CreatorConsensus |-> Rat(bearishCount, totalCreators), Direction |-> "bearish"]
       ELSE [CreatorConsensus |-> Zero, Direction |-> "neutral"]
\* 1. Creator Consensus (a bug that divides by the creators who took a side)
CreatorConsensus_decided(sentiments) ==
    LET bullishCount == CountValues(sentiments, "bullish")
        bearishCount == CountValues(sentiments, "bearish")
        totalCreators == Cardinality(DOMAIN sentiments)
    IN IF totalCreators > 0
       THEN IF bullishCount > bearishCount
            THEN [CreatorConsensus |-> Rat(bullishCount, bullishCount + bearishCount), Direction |-> "bullish"]
            ELSE IF bearishCount > bullishCount
            THEN [CreatorConsensus |-> Rat(bearishCount, bullishCount + bearishCount), Direction |-> "bearish"]
            ELSE [CreatorConsensus |-> Rat(1, 2), Direction |-> "neutral"]
       ELSE [CreatorConsensus |-> Zero, Direction |-> "neutral"]
\* 1. Creator Consensus: [CreatorConsensus, Direction]
CreatorConsensus(sentiments) ==
    LET bullishCount == CountValues(sentiments, "bullish")
        bearishCount == CountValues(sentiments, "bearish")
        totalCreators == Cardinality(DOMAIN sentiments)
    IN IF totalCreators > 0
       THEN IF bullishCount > bearishCount
            THEN [CreatorConsensus |-> Rat(bullishCount, totalCreators), Direction |-> "bullish"]
            ELSE IF bearishCount > bullishCount
            THEN [CreatorConsensus |-> Rat(bearishCount, totalCreators), Direction |-> "bearish"]
            ELSE [CreatorConsensus |-> Rat(1, 2), Direction |-> "neutral"]
       ELSE [CreatorConsensus |-> Zero, Direction |-> "neutral"]

\* 2. Technical Alignment (a bug that leaves neutral signals out of the total)
TechnicalAlignment_skipNeutral(signals, direction) ==
    LET bullishSignals == CountValues(signals, "bullish")
        bearishSignals == CountValues(signals, "bearish")
        totalSignals == bullishSignals + bearishSignals
    IN IF totalSignals > 0
       THEN IF direction = "bullish" THEN Rat(bullishSignals, totalSignals)
            ELSE IF direction = "bearish" THEN Rat(bearishSignals, totalSignals)
            ELSE IF bullishSignals > bearishSignals
                 THEN Rat(bullishSignals, totalSignals)
                 ELSE Rat(bearishSignals, totalSignals)
       ELSE Zero
\* 2. Technical Alignment
TechnicalAlignment(signals, direction) ==
    LET bullishSignals == CountValues(signals, "bullish")
        bearishSignals == CountValues(signals, "bearish")
        totalSignals == Len(signals)
    IN IF totalSignals > 0
       THEN IF direction = "bullish" THEN Rat(bullishSignals, totalSignals)
            ELSE IF direction = "bearish" THEN Rat(bearishSignals, totalSignals)
            ELSE IF bullishSignals > bearishSignals
                 THEN Rat(bullishSignals, totalSignals)
                 ELSE Rat(bearishSignals, totalSignals)
       ELSE Zero

\* 3. Volume Confirmation (a bug that drops the ratio >= 2.0 case)
VolumeConfirmation_unclamped(currentVolume, avgVolume) ==
    IF avgVolume > 0
    THEN LET ratio == Rat(currentVolume, avgVolume)
         IN IF RLeq(ratio, Rat(1, 2)) THEN Zero
            ELSE RDiv(RSub(ratio, Rat(1, 2)), Rat(3, 2))
    ELSE Rat(1, 2)
\* 3. Volume Confirmation (a bug that has no default for a zero average)
VolumeConfirmation_noDefault(currentVolume, avgVolume) ==
    IF avgVolume > 0
    THEN LET ratio == Rat(currentVolume, avgVolume)
         IN CASE RLeq(Rat(2, 1), ratio) -> One
              [] ~RLeq(Rat(2, 1), ratio) /\ RLeq(ratio, Rat(1, 2)) -> Zero
              [] OTHER -> RDiv(RSub(ratio, Rat(1, 2)), Rat(3, 2))
    ELSE Zero
\* 3. Volume Confirmation
VolumeConfirmation(currentVolume, avgVolume) ==
    IF avgVolume > 0
    THEN LET ratio == Rat(currentVolume, avgVolume)
         IN CASE RLeq(Rat(2, 1), ratio) -> One
              [] ~RLeq(Rat(2, 1), ratio) /\ RLeq(ratio, Rat(1, 2)) -> Zero
              [] OTHER -> RDiv(RSub(ratio, Rat(1, 2)), Rat(3, 2))
    ELSE Rat(1, 2)

\* sum += accuracy over the map
RECURSIVE SumRates(_, _)
SumRates(rates, keys) ==
    IF keys = {} THEN Zero
    ELSE LET k == CHOOSE x \in keys : TRUE
         IN RAdd(rates[k], SumRates(rates, keys \ {k}))

\* 4. Historical Accuracy (a bug that has no default for an empty map)
HistoricalAccuracy_zeroDefault(rates) ==
    IF Cardinality(DOMAIN rates) > 0
    THEN RDiv(SumRates(rates, DOMAIN rates), Rat(Cardinality(DOMAIN rates), 1))
    ELSE Zero
\* 4. Historical Accuracy
HistoricalAccuracy(rates) ==
    IF Cardinality(DOMAIN rates) > 0
    THEN RDiv(SumRates(rates, DOMAIN rates), Rat(Cardinality(DOMAIN rates), 1))
    ELSE Rat(1, 2)

\* func CalculateConfidence(inputs ConfidenceInputs, weights ConfidenceWeights) ConfidenceScore
CalculateConfidence(in, w) ==
    LET cc == CreatorConsensus(in.CreatorSentiments)
        ta == TechnicalAlignment(in.TechnicalSignals, cc.Direction)
        vc == VolumeConfirmation(in.CurrentVolume, in.AvgVolume)
        ha == HistoricalAccuracy(in.CreatorAccuracyRates)
    IN [Overall |->
            RAdd(RAdd(RAdd(RMul(cc.CreatorConsensus, w.CreatorConsensus),
                           RMul(ta, w.TechnicalAlignment)),
                      RMul(vc, w.VolumeConfirmation)),
                 RMul(ha, w.HistoricalAccuracy)),
        CreatorConsensus |-> cc.CreatorConsensus,
        TechnicalAlignment |-> ta,
        VolumeConfirmation |-> vc,
        HistoricalAccuracy |-> ha,
        Direction |-> cc.Direction,
        Breakdown |->
            [format |-> "Creator: %.0f%% | Technical: %.0f%% | Volume: %.0f%% | History: %.0f%%",
             args |-> <<Percent(cc.CreatorConsensus), Percent(ta), Percent(vc), Percent(ha)>>]]

\* GetTechnicalSignals (a bug that takes an RSI of exactly 30 as oversold)
GetTechnicalSignals_le30(rsi, sma50, sma200, macd, macdSignal, currentPrice) ==
    (IF rsi > 0
     THEN IF rsi <= 30 THEN <<"bullish">>
          ELSE IF rsi > 70 THEN <<"bearish">> ELSE <<"neutral">>
     ELSE <<>>)
    \o (IF sma50 > 0 /\ sma200 > 0
        THEN IF sma50 > sma200 THEN <<"bullish">> ELSE <<"bearish">>
        ELSE <<>>)
    \o (IF sma200 > 0 /\ currentPrice > 0
        THEN IF currentPrice > sma200 THEN <<"bullish">> ELSE <<"bearish">>
        ELSE <<>>)
    \o (IF macd # 0 /\ macdSignal # 0
        THEN IF macd > macdSignal THEN <<"bullish">> ELSE <<"bearish">>
        ELSE <<>>)
\* func GetTechnicalSignals(rsi, sma50, sma200, macd, macdSignal, currentPrice) []string
\* (arguments are float64 values given as integers)
GetTechnicalSignals(rsi, sma50, sma200, macd, macdSignal, currentPrice) ==
    (IF rsi > 0
     THEN IF rsi < 30 THEN <<"bullish">>
          ELSE IF rsi > 70 THEN <<"bearish">> ELSE <<"neutral">>
     ELSE <<>>)
    \o (IF sma50 > 0 /\ sma200 > 0
        THEN IF sma50 > sma200 THEN <<"bullish">> ELSE <<"bearish">>
        ELSE <<>>)
    \o (IF sma200 > 0 /\ currentPrice > 0
        THEN IF currentPrice > sma200 THEN <<"bullish">> ELSE <<"bearish">>
        ELSE <<>>)
    \o (IF macd # 0 /\ macdSignal # 0
        THEN IF macd > macdSignal THEN <<"bullish">> ELSE <<"bearish">>
        ELSE <<>>)

---------------------------------------------------------------------------
(* services/engine: market regimes and the allocation ladder.              *)

RegimeCalm == "calm"
RegimeVolatile == "volatile"
RegimeBullish == "bullish"
RegimeBearish == "bearish"
MarketRegime == {RegimeCalm, RegimeVolatile, RegimeBullish, RegimeBearish}

\* var coreHoldings = map[string]float64{...}
coreHoldings ==
    [SPY |-> Rat(40, 100), QQQ |-> Rat(30, 100),
     VOO |-> Rat(20, 100), VTI |-> Rat(10, 100)]

\* score.Overall < 0.6 in the non-core branch
RiskConfidenceTooLow_le(s) == RLeq(s.Overall, Rat(6, 10))
RiskConfidenceTooLow(s) == RLess(s.Overall, Rat(6, 10))

\* budget * 0.10
RiskAmount_percent(b) == RMul(b, Rat(10, 1))
RiskAmount(b) == RMul(b, Rat(10, 100))

\* case score.Overall < 0.4
VeryLowConfidence_le(s) == RLeq(s.Overall, Rat(4, 10))
VeryLowConfidence(s) == RLess(s.Overall, Rat(4, 10))

\* case score.Overall < 0.6 (a bug that drops the moderate band)
ModerateConfidence_never(s) == FALSE
\* case score.Overall < 0.6
ModerateConfidence_le(s) == RLeq(s.Overall, Rat(6, 10))
ModerateConfidence(s) == RLess(s.Overall, Rat(6, 10))

\* case regime == RegimeBullish && score.Overall > 0.8
BullishHighConfidence_ge(r, s) == r = RegimeBullish /\ RLeq(Rat(8, 10), s.Overall)
BullishHighConfidence(r, s) == r = RegimeBullish /\ RLess(Rat(8, 10), s.Overall)

\* amount *= 1.1 (a bug that leaves the amount as it is)
BoostedAmount_noBoost(amount, b, baseAllocation) == amount
\* amount *= 1.1; if amount > budget*baseAllocation*1.2 { amount = budget*baseAllocation*1.2 }
BoostedAmount_cap(amount, b, baseAllocation) ==
    LET boosted == RMul(amount, Rat(11, 10))
        cap == RMul(RMul(b, baseAllocation), Rat(12, 10))
    IN IF RLess(boosted, cap) THEN cap ELSE boosted
BoostedAmount(amount, b, baseAllocation) ==
    LET boosted == RMul(amount, Rat(11, 10))
        cap == RMul(RMul(b, baseAllocation), Rat(12, 10))
    IN IF RLess(cap, boosted) THEN cap ELSE boosted

\* case score.Overall < 0.4 (a bug that applies no haircut)
LowConfidenceResult_full(amount, s) ==
    [Action |-> "buy",
     Amount |-> amount,
     Reasoning |-> Sprintf("Reduced allocation due to low confidence (%.0f%%)", Percent(s.Overall))]
\* case score.Overall < 0.4: amount *= 0.25; return AllocationResult{Action: "buy", ...}
LowConfidenceResult_wait(amount, s) ==
    [Action |-> "wait",
     Amount |-> Zero,
     Reasoning |-> Sprintf("Reduced allocation due to low confidence (%.0f%%)", Percent(s.Overall))]
LowConfidenceResult(amount, s) ==
    [Action |-> "buy",
     Amount |-> RMul(amount, Rat(25, 100)),
     Reasoning |-> Sprintf("Reduced allocation due to low confidence (%.0f%%)", Percent(s.Overall))]

calculateAllocation(t, s, b, r) ==
    LET isCore == t \in DOMAIN coreHoldings
        baseAllocation == IF isCore THEN coreHoldings[t] ELSE Zero
        amount == RMul(b, baseAllocation)
    IN IF ~isCore
       THEN IF RiskConfidenceTooLow(s)
            THEN [Action |-> "wait",
                  Amount |-> Zero,
                  Reasoning |-> Sprintf("Confidence too low (%.0f%%) for risk allocation", Percent(s.Overall))]
            ELSE [Action |-> "buy",
                  Amount |-> RiskAmount(b),
                  Reasoning |-> Sprintf("Risk allocation approved (%.0f%% confidence)", Percent(s.Overall))]
       ELSE CASE VeryLowConfidence(s) -> LowConfidenceResult(amount, s)
              [] ~VeryLowConfidence(s) /\ ModerateConfidence(s) ->
                 [Action |-> "buy",
                  Amount |-> RMul(amount, Rat(5, 10)),
                  Reasoning |-> Sprintf("Reduced allocation due to moderate confidence (%.0f%%)", Percent(s.Overall))]
              [] ~VeryLowConfidence(s) /\ ~ModerateConfidence(s) /\ r = RegimeBearish ->
                 [Action |-> "buy",
                  Amount |-> RMul(amount, Rat(75, 100)),
                  Reasoning |-> Sprintf("Bearish regime - conservative allocation (%.0f%% confidence)", Percent(s.Overall))]
              [] ~VeryLowConfidence(s) /\ ~ModerateConfidence(s) /\ r # RegimeBearish
                   /\ BullishHighConfidence(r, s) ->
                 [Action |-> "buy",
                  Amount |-> BoostedAmount(amount, b, baseAllocation),
                  Reasoning |-> Sprintf("Bullish regime with high confidence (%.0f%%) - increased allocation", Percent(s.Overall))]
              [] OTHER ->
                 [Action |-> "buy",
                  Amount |-> amount,
                  Reasoning |-> Sprintf("Standard allocation (%.0f%% confidence)", Percent(s.Overall))]

---------------------------------------------------------------------------
(* services/engine: the engine and the queries it sends to the database.   *)

\* func DefaultConfig() Config
DefaultConfig ==
    [VIXHighThreshold |-> Rat(25, 1), RSIOverbought |-> Rat(70, 1), RSIOversold |-> Rat(30, 1)]

\* func NewEngine(db *sql.DB, cfg Config) *Engine
NewEngine(cfg) ==
    [vixHighThreshold |-> cfg.VIXHighThreshold,
     rsiOverbought |-> cfg.RSIOverbought,
     rsiOversold |-> cfg.RSIOversold]

\* A query's answer: the error of QueryRowContext(...).Scan (or QueryContext) and
\* what was scanned. Every query made with a cancelled context fails.
CtxError == [err |-> "context canceled"]
Answer(a, cancelled) == IF cancelled THEN CtxError ELSE a

\* sql.NullFloat64 / sql.NullInt64 after Scan: the zero value unless a non-NULL
\* value was scanned without error
NullValue(a) ==
    IF a.err = "nil" /\ a.Valid THEN [Valid |-> TRUE, Value |-> a.Value]
    ELSE [Valid |-> FALSE, Value |-> Zero]

\* if vixLevel > e.vixHighThreshold (a bug that takes the threshold as volatile)
IsHighVix_ge(e, vixLevel) == RLeq(e.vixHighThreshold, vixLevel)
\* if vixLevel > e.vixHighThreshold
IsHighVix(e, vixLevel) == RLess(e.vixHighThreshold, vixLevel)

\* if rsi.Float64 > e.rsiOverbought (a bug that compares with the default 70.0)
IsOverbought_default(e, rsi) == RLess(Rat(70, 1), rsi)
\* if rsi.Float64 > e.rsiOverbought
IsOverbought(e, rsi) == RLess(e.rsiOverbought, rsi)

\* else if rsi.Float64 < e.rsiOversold (a bug that takes the threshold as oversold)
IsOversold_le(e, rsi) == RLeq(rsi, e.rsiOversold)
\* else if rsi.Float64 < e.rsiOversold
IsOversold(e, rsi) == RLess(rsi, e.rsiOversold)

\* if err != nil && err != sql.ErrNoRows (a bug that never sees the error)
VixQueryFailed_never(vixAnswer) == FALSE
\* if err != nil && err != sql.ErrNoRows, after the VIX query
VixQueryFailed(vixAnswer) == vixAnswer.err # "nil" /\ vixAnswer.err # "ErrNoRows"

\* func (e *Engine) detectMarketRegime(ctx) (MarketRegime, float64, error)
\* vixAnswer, rsiAnswer: the answers to the VIX and the SPY rsi_14 queries
detectMarketRegime(e, vixAnswer, rsiAnswer) ==
    IF VixQueryFailed(vixAnswer)
    THEN [regime |-> RegimeCalm, vix |-> Zero, err |-> "query VIX"]
    ELSE LET vixNull == NullValue(vixAnswer)
             vixLevel == IF vixNull.Valid THEN vixNull.Value ELSE Zero
             rsi == NullValue(rsiAnswer)
         IN IF IsHighVix(e, vixLevel)
            THEN [regime |-> RegimeVolatile, vix |-> vixLevel, err |-> "nil"]
            ELSE IF rsiAnswer.err = "nil" /\ rsi.Valid /\ IsOverbought(e, rsi.Value)
            THEN [regime |-> RegimeBearish, vix |-> vixLevel, err |-> "nil"]
            ELSE IF rsiAnswer.err = "nil" /\ rsi.Valid /\ IsOversold(e, rsi.Value)
            THEN [regime |-> RegimeBullish, vix |-> vixLevel, err |-> "nil"]
            ELSE [regime |-> RegimeCalm, vix |-> vixLevel, err |-> "nil"]

\* defaultTickers := []string{"SPY", "QQQ", "VOO", "VTI"}
defaultTickers == <<"SPY", "QQQ", "VOO", "VTI">>

\* func (e *Engine) getTrackedTickers(ctx) ([]string, error)
\* configAnswer: the answer to SELECT value FROM config WHERE key = 'tracked_tickers'
getTrackedTickers(configAnswer) ==
    IF configAnswer.err # "nil"
    THEN IF configAnswer.err = "ErrNoRows"
         THEN [tickers |-> defaultTickers, err |-> "nil"]
         ELSE [tickers |-> <<>>, err |-> "query config"]
    ELSE [tickers |-> defaultTickers, err |-> "nil"]

\* func FetchCreatorAccuracy(ctx, db, creators) (map[string]float64, error)
\* accuracyAnswer: the answer to the creator_accuracy query (creator -> AVG)
FetchCreatorAccuracy(creators, accuracyAnswer) ==
    IF creators = {} THEN [rates |-> <<>>, err |-> "nil"]
    ELSE IF accuracyAnswer.err # "nil" THEN [rates |-> <<>>, err |-> "query accuracy"]
    ELSE [rates |-> [c \in creators |->
                        IF c \in DOMAIN accuracyAnswer.rows
                        THEN accuracyAnswer.rows[c] ELSE Rat(1, 2)],
          err |-> "nil"]

\* The inputs getTickerConfidenceScore builds from a ticker's rows:
\* rows.creators (creator_content), rows.indicators (technical_indicators),
\* rows.market (market_data), rows.avgVolume, rows.accuracy (creator_accuracy)
TickerInputs(t, rows) ==
    LET creatorSentiments ==
            IF rows.creators.err = "nil" THEN rows.creators.rows ELSE <<>>
        ind == rows.indicators
        ok == ind.err = "nil"
        rsi == IF ok THEN ind.rsi ELSE [Valid |-> FALSE, Value |-> 0]
        sma50 == IF ok THEN ind.sma50 ELSE [Valid |-> FALSE, Value |-> 0]
        sma200 == IF ok THEN ind.sma200 ELSE [Valid |-> FALSE, Value |-> 0]
        macd == IF ok THEN ind.macd ELSE [Valid |-> FALSE, Value |-> 0]
        macdSignal == IF ok THEN ind.macdSignal ELSE [Valid |-> FALSE, Value |-> 0]
        currentPrice == IF rows.market.err = "nil" THEN rows.market.close ELSE 0
        currentVolume == IF rows.market.err = "nil" THEN rows.market.volume ELSE 0
        avgVolume == IF rows.avgVolume.err = "nil" THEN rows.avgVolume.Value ELSE 0
        technicalSignals ==
            IF rsi.Valid
            THEN GetTechnicalSignals(rsi.Value, sma50.Value, sma200.Value,
                                     macd.Value, macdSignal.Value, currentPrice)
            ELSE <<>>
        accuracyRates == FetchCreatorAccuracy(DOMAIN creatorSentiments, rows.accuracy).rates
    IN [Ticker |-> t,
        CreatorSentiments |-> creatorSentiments,
        TechnicalSignals |-> technicalSignals,
        CurrentVolume |-> currentVolume,
        AvgVolume |-> avgVolume,
        CreatorAccuracyRates |-> accuracyRates]

\* func (e *Engine) getTickerConfidenceScore(ctx, ticker) (*analysis.ConfidenceScore, error)
\* the *ConfidenceScore result
getTickerConfidenceScore(t, rows) ==
    CalculateConfidence(TickerInputs(t, rows), DefaultWeights)

\* a query of getTickerConfidenceScore failed (other than by finding no row)
QueryFailed(rows) ==
    \E q \in DOMAIN rows : rows[q].err \notin {"nil", "ErrNoRows"}

\* the error result of getTickerConfidenceScore (a bug that returns a failed
\* query's error)
ScoreError_propagated(rows) == IF QueryFailed(rows) THEN "query" ELSE "nil"
\* the error result of getTickerConfidenceScore: every query error is dropped
\* and the only return statement is return &score, nil
ScoreError(rows) == "nil"

\* if regime == RegimeVolatile (a bug that never takes the branch)
IsVolatile_never(r) == FALSE
\* if regime == RegimeVolatile
IsVolatile(r) == r = RegimeVolatile

\* the single recommendation of the volatile branch (a bug that sets Amount)
VolatileRecommendation_budget(b, r, v) ==
    [Ticker |-> "", Action |-> "wait", Amount |-> b, ConfidenceScore |-> Zero,
     Reasoning |-> Sprintf("High volatility detected (VIX: %.2f). Wait 2-3 days for market to stabilize.", Fixed2(v)),
     MarketRegime |-> r, VIXLevel |-> v]
\* the single recommendation of the volatile branch
VolatileRecommendation(b, r, v) ==
    [Ticker |-> "", Action |-> "wait", Amount |-> Zero, ConfidenceScore |-> Zero,
     Reasoning |-> Sprintf("High volatility detected (VIX: %.2f). Wait 2-3 days for market to stabilize.", Fixed2(v)),
     MarketRegime |-> r, VIXLevel |-> v]

\* generateBasicRecommendations: a recommendation reaches StoreRecommendation
\* (a bug that stores every recommendation)
ShouldStore_all(rec) == TRUE
\* generateBasicRecommendations: if rec.Action == "wait" { ...; continue }
ShouldStore(rec) == rec.Action # "wait"

\* the Recommendation appended for one ticker
TickerRecommendation(t, sc, alloc, r, v) ==
    [Ticker |-> t, Action |-> alloc.Action, Amount |-> alloc.Amount,
     ConfidenceScore |-> sc.Overall, Reasoning |-> alloc.Reasoning,
     MarketRegime |-> r, VIXLevel |-> v]

---------------------------------------------------------------------------
(* Zero values of the state a specification does not use.                  *)

NoScore == [Overall |-> Zero]
NoAllocation == [Action |-> "", Amount |-> Zero, Reasoning |-> EmptyString]
NoEngine == [vixHighThreshold |-> Zero, rsiOverbought |-> Zero, rsiOversold |-> Zero]
NoDb == [vix |-> "none", spyRsi |-> "none", trackedTickers |-> "none"]
NoInputs == [Ticker |-> ""]
NoWeights == <<>>
NoIndicators == [rsi |-> 0]

---------------------------------------------------------------------------
(* Spec: generateBasicRecommendations. An engine is built, then             *)
(* GenerateRecommendations runs against a database whose answers are drawn *)
(* from the sets below; the context may be cancelled at any point.         *)

\* Engine configurations: the default one, an overriding one, and one with a
\* negative VIX threshold (NewEngine takes any Config)
Configs ==
    {DefaultConfig,
     [VIXHighThreshold |-> Rat(20, 1), RSIOverbought |-> Rat(60, 1), RSIOversold |-> Rat(40, 1)],
     [VIXHighThreshold |-> Rat(-1, 1), RSIOverbought |-> Rat(70, 1), RSIOversold |-> Rat(30, 1)]}

\* Answers to a single-row, single-column float query
FloatAnswers(values) ==
    {[err |-> "error"], [err |-> "ErrNoRows"],
     [err |-> "nil", Valid |-> FALSE, Value |-> Zero]}
    \cup {[err |-> "nil", Valid |-> TRUE, Value |-> Rat(v, 1)] : v \in values}

VixAnswers == FloatAnswers({20, 25, 26})
RsiAnswers == FloatAnswers({25, 30, 35, 65, 70, 75})
ConfigAnswers ==
    {[err |-> "error"], [err |-> "ErrNoRows"],
     [err |-> "nil", value |-> "[\"AAPL\", \"SPY\"]"]}

\* budget := 1000.0 // Default monthly contribution
DefaultBudget == Rat(1000, 1)

Present(v) == [Valid |-> TRUE, Value |-> v]
Null == [Valid |-> FALSE, Value |-> 0]

\* every query of getTickerConfidenceScore fails (the context is cancelled)
FailedRows ==
    [creators |-> CtxError, indicators |-> CtxError, market |-> CtxError,
     avgVolume |-> CtxError, accuracy |-> CtxError]

\* every query of getTickerConfidenceScore fails with a database error
ErrorRows ==
    [creators |-> [err |-> "error"], indicators |-> [err |-> "error"],
     market |-> [err |-> "error"], avgVolume |-> [err |-> "error"],
     accuracy |-> [err |-> "error"]]

\* the ticker has no creator content, no indicators, no market data
AbsentRows ==
    [creators |-> [err |-> "nil", rows |-> <<>>],
     indicators |-> [err |-> "ErrNoRows"],
     market |-> [err |-> "ErrNoRows"],
     avgVolume |-> [err |-> "ErrNoRows"],
     accuracy |-> [err |-> "nil", rows |-> <<>>]]

\* everything bullish: score 0.95
BullishRows ==
    [creators |-> [err |-> "nil", rows |-> [creator1 |-> "bullish", creator2 |-> "bullish"]],
     indicators |-> [err |-> "nil", rsi |-> Present(25), sma50 |-> Present(450),
                     sma200 |-> Present(440), macd |-> Present(3), macdSignal |-> Present(2)],
     market |-> [err |-> "nil", close |-> 455, volume |-> 100],
     avgVolume |-> [err |-> "nil", Value |-> 50],
     accuracy |-> [err |-> "nil", rows |-> [creator1 |-> One, creator2 |-> Rat(1, 2)]]]

\* rsi_14 is NULL, the other indicators are present; creators split
NoRsiRows ==
    [creators |-> [err |-> "nil", rows |-> [creator1 |-> "bullish", creator2 |-> "bearish"]],
     indicators |-> [err |-> "nil", rsi |-> Null, sma50 |-> Present(450),
                     sma200 |-> Present(440), macd |-> Present(3), macdSignal |-> Present(2)],
     market |-> [err |-> "nil", close |-> 455, volume |-> 50],
     avgVolume |-> [err |-> "nil", Value |-> 50],
     accuracy |-> [err |-> "nil", rows |-> <<>>]]

\* one creator's sentiment is none of the three labels
MixedLabelRows ==
    [creators |-> [err |-> "nil", rows |-> [creator1 |-> "mixed", creator2 |-> "bullish"]],
     indicators |-> [err |-> "nil", rsi |-> Present(50), sma50 |-> Present(430),
                     sma200 |-> Present(440), macd |-> Present(2), macdSignal |-> Present(1)],
     market |-> [err |-> "nil", close |-> 455, volume |-> 40],
     avgVolume |-> [err |-> "nil", Value |-> 50],
     accuracy |-> [err |-> "nil", rows |-> [creator1 |-> Zero, creator2 |-> One]]]

\* one bullish creator without history, MACD missing: score 0.7
StandardRows ==
    [creators |-> [err |-> "nil", rows |-> [creator1 |-> "bullish"]],
     indicators |-> [err |-> "nil", rsi |-> Present(25), sma50 |-> Present(450),
                     sma200 |-> Present(440), macd |-> Null, macdSignal |-> Null],
     market |-> [err |-> "nil", close |-> 435, volume |-> 5],
     avgVolume |-> [err |-> "nil", Value |-> 4],
     accuracy |-> [err |-> "nil", rows |-> <<>>]]

TickerRows == {ErrorRows, AbsentRows, BullishRows, NoRsiRows, MixedLabelRows, StandardRows}

Init ==
    /\ pc = "main"
    /\ engine = NoEngine
    /\ db \in [vix : VixAnswers, spyRsi : RsiAnswers, trackedTickers : ConfigAnswers]
    /\ ctxDone = FALSE
    /\ budget = Zero
    /\ regime = RegimeCalm
    /\ vix = Zero
    /\ tickers = <<>>
    /\ idx = 0
    /\ recommendations = <<>>
    /\ err = "nil"
    /\ trace = {}
    /\ fetched = <<>>
    /\ ticker = ""
    /\ score = NoScore
    /\ allocation = NoAllocation
    /\ inputs = NoInputs
    /\ weights = NoWeights
    /\ indicators = NoIndicators
    /\ returnedSignals = <<>>
    /\ stored = <<>>

\* eng := engine.NewEngine(db, cfg)
CallNewEngine ==
    /\ pc = "main"
    /\ \E cfg \in Configs : engine' = NewEngine(cfg)
    /\ pc' = "constructed"
    /\ UNCHANGED <<db, ctxDone, budget, regime, vix, tickers, idx, recommendations,
                   err, trace, fetched, ticker, score, allocation, inputs, weights, indicators, returnedSignals, stored>>

\* GenerateRecommendations, 1. Determine market regime
DetectRegime ==
    /\ pc = "constructed"
    /\ budget' = DefaultBudget
    /\ LET r == detectMarketRegime(engine, Answer(db.vix, ctxDone), Answer(db.spyRsi, ctxDone))
       IN /\ regime' = IF r.err # "nil" THEN RegimeCalm ELSE r.regime
          /\ vix' = IF r.err # "nil" THEN Zero ELSE r.vix
    /\ trace' = trace \cup {"detectMarketRegime"}
    /\ pc' = "regime"
    /\ UNCHANGED <<engine, db, ctxDone, tickers, idx, recommendations, err, fetched,
                   ticker, score, allocation, inputs, weights, indicators, returnedSignals, stored>>

\* GenerateRecommendations, 2. If high volatility, recommend holding cash
ReturnVolatile ==
    /\ pc = "regime"
    /\ IsVolatile(regime)
    /\ recommendations' = <<VolatileRecommendation(budget, regime, vix)>>
    /\ err' = "nil"
    /\ pc' = "returned"
    /\ UNCHANGED <<engine, db, ctxDone, budget, regime, vix, tickers, idx, trace,
                   fetched, ticker, score, allocation, inputs, weights, indicators, returnedSignals, stored>>

\* GenerateRecommendations, 3. Fetch tracked tickers
FetchTrackedTickers ==
    /\ pc = "regime"
    /\ ~IsVolatile(regime)
    /\ trace' = trace \cup {"getTrackedTickers"}
    /\ LET r == getTrackedTickers(Answer(db.trackedTickers, ctxDone))
       IN IF r.err # "nil"
          THEN /\ err' = "get tracked tickers"
               /\ pc' = "returned"
               /\ UNCHANGED <<tickers, idx>>
          ELSE /\ tickers' = r.tickers
               /\ idx' = 1
               /\ pc' = "loop"
               /\ err' = err
    /\ UNCHANGED <<engine, db, ctxDone, budget, regime, vix, recommendations,
                   fetched, ticker, score, allocation, inputs, weights, indicators, returnedSignals, stored>>

\* GenerateRecommendations, 4. One iteration of the loop over the tickers
RecommendTicker ==
    /\ pc = "loop"
    /\ idx <= Len(tickers)
    /\ \E read \in TickerRows :
          LET t == tickers[idx]
              rows == IF ctxDone THEN FailedRows ELSE read
              sc == getTickerConfidenceScore(t, rows)
              alloc == calculateAllocation(t, sc, budget, regime)
          IN /\ recommendations' =
                    IF ScoreError(rows) # "nil"
                    THEN recommendations
                    ELSE Append(recommendations,
                                TickerRecommendation(t, sc, alloc, regime, vix))
             /\ fetched' = Append(fetched, rows)
    /\ idx' = idx + 1
    /\ trace' = trace \cup {"getTickerConfidenceScore", "calculateAllocation"}
    /\ UNCHANGED <<pc, engine, db, ctxDone, budget, regime, vix, tickers, err,
                   ticker, score, allocation, inputs, weights, indicators, returnedSignals, stored>>

\* GenerateRecommendations: return recommendations, nil
ReturnRecommendations ==
    /\ pc = "loop"
    /\ idx > Len(tickers)
    /\ err' = "nil"
    /\ pc' = "returned"
    /\ UNCHANGED <<engine, db, ctxDone, budget, regime, vix, tickers, idx,
                   recommendations, trace, fetched, ticker, score, allocation,
                   inputs, weights, indicators, returnedSignals, stored>>

\* generateBasicRecommendations after GenerateRecommendations returned: the
\* error is passed on, or the loop over the recommendations hands each one
\* that is not a wait to StoreRecommendation (whose own error is only logged)
StoreRecommendations ==
    /\ pc = "returned"
    /\ IF err # "nil"
       THEN /\ pc' = "failed"
            /\ stored' = stored
       ELSE /\ pc' = "done"
            /\ stored' = SelectSeq(recommendations, ShouldStore)
    /\ UNCHANGED <<engine, db, ctxDone, budget, regime, vix, tickers, idx,
                   recommendations, err, trace, fetched, ticker, score,
                   allocation, inputs, weights, indicators, returnedSignals>>

\* cancel() on SIGINT / SIGTERM while generateBasicRecommendations runs
CancelContext ==
    /\ pc \in {"constructed", "regime", "loop"}
    /\ ~ctxDone
    /\ ctxDone' = TRUE
    /\ UNCHANGED <<pc, engine, db, budget, regime, vix, tickers, idx,
                   recommendations, err, trace, fetched, ticker, score,
                   allocation, inputs, weights, indicators, returnedSignals, stored>>

Next ==
    \/ CallNewEngine
    \/ DetectRegime
    \/ ReturnVolatile
    \/ FetchTrackedTickers
    \/ RecommendTicker
    \/ ReturnRecommendations
    \/ StoreRecommendations
    \/ CancelContext

Spec == Init /\ [][Next]_vars

---------------------------------------------------------------------------
(* SpecAlloc: calculateAllocation called, as TestCalculateAllocation does, *)
(* on an engine whose db is nil, for every ticker, score, budget, regime.  *)

CoreTickers == {"SPY", "QQQ", "VOO", "VTI"}
AllocTickers == CoreTickers \cup {"PLTR", "AAPL"}

\* score.Overall values in [0, 1]
Scores == {Rat(q[1], q[2]) : q \in {p \in (0..MaxScoreDen) \X (1..MaxScoreDen) : p[1] <= p[2]}}

\* budgets: a negative one, zero, every small amount and the tests' 1000.0
Budgets == {Rat(b, 1) : b \in {-100, 1000} \cup 0..MaxBudget}

\* engine := &Engine{db: nil, vixHighThreshold: 25.0, rsiOverbought: 70.0, rsiOversold: 30.0}
TestEngine ==
    [vixHighThreshold |-> Rat(25, 1), rsiOverbought |-> Rat(70, 1), rsiOversold |-> Rat(30, 1)]


InitAlloc ==
    /\ pc = "alloc_call"
    /\ engine = TestEngine
    /\ db = NoDb
    /\ ctxDone = FALSE
    /\ budget \in Budgets
    /\ regime \in MarketRegime
    /\ ticker \in AllocTickers
    /\ score \in {[Overall |-> o] : o \in Scores}
    /\ allocation = NoAllocation
    /\ vix = Zero
    /\ tickers = <<>>
    /\ idx = 0
    /\ recommendations = <<>>
    /\ err = "nil"
    /\ trace = {}
    /\ fetched = <<>>
    /\ inputs = NoInputs
    /\ weights = NoWeights
    /\ indicators = NoIndicators
    /\ returnedSignals = <<>>
    /\ stored = <<>>

\* result := engine.calculateAllocation(tt.ticker, tt.score, tt.budget, tt.regime)
CallCalculateAllocation ==
    /\ pc = "alloc_call"
    /\ allocation' = calculateAllocation(ticker, score, budget, regime)
    /\ pc' = "alloc_done"
    /\ UNCHANGED <<engine, db, ctxDone, budget, regime, vix, tickers, idx,
                   recommendations, err, trace, fetched, ticker, score,
                   inputs, weights, indicators, returnedSignals, stored>>

NextAlloc == CallCalculateAllocation

SpecAlloc == InitAlloc /\ [][NextAlloc]_vars

---------------------------------------------------------------------------
(* SpecConf: CalculateConfidence called, as TestCalculateConfidence does,  *)
(* on every ConfidenceInputs within the bounds and every ConfidenceWeights *)
(* of a grid of weights whose sum is within 1.0 +- 0.01.                   *)

CreatorNames == <<"creator1", "creator2", "creator3", "creator4">>
Creators == {CreatorNames[i] : i \in 1..MaxCreators}

\* creator_content.sentiment is free text: the three labels and any other value
SentimentValues == {"bullish", "bearish", "neutral", "mixed"}
SignalValues == {"bullish", "bearish", "neutral"}
AccuracyValues == {Zero, One}

SentimentMaps == UNION {[S -> SentimentValues] : S \in SUBSET Creators}
SignalSeqs == UNION {[1..k -> SignalValues] : k \in 0..MaxSignals}

\* the accuracy map holds a rate for each creator of the sentiment map
\* (FetchCreatorAccuracy) or nothing (no history supplied)
AccuracyMaps(m) == {<<>>} \cup [DOMAIN m -> AccuracyValues]

\* weights in hundredths, each non-negative, their sum within 1.0 +- 0.01:
\* the default ones, a set summing to 1.01, and a lopsided one
WeightTuples == {<<30, 30, 20, 20>>, <<31, 30, 20, 20>>, <<100, 0, 0, 0>>}
ConfidenceWeights ==
    {[CreatorConsensus |-> Rat(q[1], 100), TechnicalAlignment |-> Rat(q[2], 100),
      VolumeConfirmation |-> Rat(q[3], 100), HistoricalAccuracy |-> Rat(q[4], 100)] :
        q \in WeightTuples}

InitConf ==
    /\ pc = "conf_call"
    /\ inputs = NoInputs
    /\ weights = NoWeights
    /\ indicators = NoIndicators
    /\ returnedSignals = <<>>
    /\ stored = <<>>
    /\ score = NoScore
    /\ engine = NoEngine
    /\ db = NoDb
    /\ ctxDone = FALSE
    /\ budget = Zero
    /\ regime = RegimeCalm
    /\ vix = Zero
    /\ tickers = <<>>
    /\ idx = 0
    /\ recommendations = <<>>
    /\ err = "nil"
    /\ trace = {}
    /\ fetched = <<>>
    /\ ticker = ""
    /\ allocation = NoAllocation

\* score := CalculateConfidence(tt.inputs, weights)
CallCalculateConfidence ==
    /\ pc = "conf_call"
    /\ \E m \in SentimentMaps, sg \in SignalSeqs,
          cv \in 0..MaxVolume, av \in 0..MaxVolume, w \in ConfidenceWeights :
          \E acc \in AccuracyMaps(m) :
             LET in == [Ticker |-> "SPY",
                        CreatorSentiments |-> m,
                        TechnicalSignals |-> sg,
                        CurrentVolume |-> cv,
                        AvgVolume |-> av,
                        CreatorAccuracyRates |-> acc]
             IN /\ inputs' = in
                /\ weights' = w
                /\ score' = CalculateConfidence(in, w)
    /\ pc' = "conf_done"
    /\ UNCHANGED <<engine, db, ctxDone, budget, regime, vix, tickers, idx,
                   recommendations, err, trace, fetched, ticker, allocation, indicators, returnedSignals, stored>>

NextConf == CallCalculateConfidence

SpecConf == InitConf /\ [][NextConf]_vars

---------------------------------------------------------------------------
(* SpecSig: GetTechnicalSignals called, as TestGetTechnicalSignals does,   *)
(* on every combination of indicator values of the sets below.             *)

\* RSI values: absent (0), below, on and above the literals 30 and 70
RsiLevels == {0, 25, 30, 50, 70, 75}
\* SMA50, SMA200 and price values: absent (0) and small positive levels
PriceLevels == 0..MaxLevel
\* MACD and MACD signal values: negative, absent (0), positive
MacdLevels == {-1, 0, 1}

InitSig ==
    /\ pc = "sig_call"
    /\ indicators \in [rsi : RsiLevels, sma50 : PriceLevels, sma200 : PriceLevels,
                        macd : MacdLevels, macdSignal : MacdLevels,
                        currentPrice : PriceLevels]
    /\ returnedSignals = <<>>
    /\ stored = <<>>
    /\ inputs = NoInputs
    /\ weights = NoWeights
    /\ score = NoScore
    /\ engine = NoEngine
    /\ db = NoDb
    /\ ctxDone = FALSE
    /\ budget = Zero
    /\ regime = RegimeCalm
    /\ vix = Zero
    /\ tickers = <<>>
    /\ idx = 0
    /\ recommendations = <<>>
    /\ err = "nil"
    /\ trace = {}
    /\ fetched = <<>>
    /\ ticker = ""
    /\ allocation = NoAllocation

\* signals := GetTechnicalSignals(tt.rsi, tt.sma50, tt.sma200, tt.macd, tt.macdSignal, tt.currentPrice)
CallGetTechnicalSignals ==
    /\ pc = "sig_call"
    /\ returnedSignals' =
          GetTechnicalSignals(indicators.rsi, indicators.sma50, indicators.sma200,
                              indicators.macd, indicators.macdSignal,
                              indicators.currentPrice)
    /\ pc' = "sig_done"
    /\ UNCHANGED <<engine, db, ctxDone, budget, regime, vix, tickers, idx,
                   recommendations, err, trace, fetched, ticker, score,
                   allocation, inputs, weights, indicators, stored>>

NextSig == CallGetTechnicalSignals

SpecSig == InitSig /\ [][NextSig]_vars

---------------------------------------------------------------------------
(* Claims about calculateAllocation (checked under SpecAlloc).             *)

AllocDone == pc = "alloc_done"
IsCore == ticker \in {"SPY", "QQQ", "VOO", "VTI"}
\* budget x base of the core table, written out
CoreBase ==
    RMul(budget, CASE ticker = "SPY" -> Rat(2, 5)
                   [] ticker = "QQQ" -> Rat(3, 10)
                   [] ticker = "VOO" -> Rat(1, 5)
                   [] ticker = "VTI" -> Rat(1, 10)
                   [] OTHER -> Zero)

\* C1: for every ticker, every score in [0,1], every regime and every budget >= 0,
\* the amount calculateAllocation returns satisfies 0 <= amount <= budget.
C1_AmountWithinBudget ==
    (AllocDone /\ RLeq(Zero, budget)
       /\ RLeq(Zero, score.Overall) /\ RLeq(score.Overall, One))
    => (RLeq(Zero, allocation.Amount) /\ RLeq(allocation.Amount, budget))

\* The largest share a call returns (SPY, bullish, score 1: 0.44 x budget), on a
\* small budget: 3 -> 1.32.
C1_Witness ==
    /\ AllocDone /\ ticker = "SPY" /\ regime = RegimeBullish
    /\ score.Overall = One /\ budget = Rat(3, 1)
    /\ allocation.Amount = Rat(33, 25)

\* C5 as stated: for a core ticker the amount is budget x base x m, m fixed by
\* the first matching rule: score < 0.4 -> 0.25; else score < 0.6 -> 0.5; else
\* bearish -> 0.75; else bullish and score > 0.8 -> 1.1; else 1.0 (any budget).
C5_Original ==
    (AllocDone /\ IsCore) =>
        LET o == score.Overall
            m == IF RLess(o, Rat(2, 5)) THEN Rat(1, 4)
                 ELSE IF RLess(o, Rat(3, 5)) THEN Rat(1, 2)
                 ELSE IF regime = "bearish" THEN Rat(3, 4)
                 ELSE IF regime = "bullish" /\ RLess(Rat(4, 5), o) THEN Rat(11, 10)
                 ELSE One
        IN allocation.Amount = RMul(CoreBase, m)

\* C5 (amended): for a core ticker and a budget >= 0 the amount is
\* budget x base x m, m fixed by the first matching rule of the ladder above.
C5_CoreLadder == RLeq(Zero, budget) => C5_Original

\* budget 1000, SPY (base 0.40), score 0.9, bullish -> 1000 x 0.40 x 1.1 = 440, buy.
C5_Witness ==
    /\ AllocDone /\ ticker = "SPY" /\ regime = RegimeBullish
    /\ score.Overall = Rat(9, 10) /\ budget = Rat(1000, 1)
    /\ allocation.Amount = Rat(440, 1) /\ allocation.Action = "buy"

\* C6: the ladder's thresholds are half-open: a core ticker at score exactly 0.4
\* gets 0.5x (not 0.25x); at exactly 0.6 it gets 1.0x, or 0.75x in a bearish
\* regime; at exactly 0.8 in a bullish regime it gets 1.0x (not 1.1x); any score
\* strictly below 0.4 gets 0.25x.
C6_HalfOpenThresholds ==
    (AllocDone /\ IsCore) =>
        /\ score.Overall = Rat(2, 5) => allocation.Amount = RMul(CoreBase, Rat(1, 2))
        /\ score.Overall = Rat(3, 5) =>
               allocation.Amount =
                   RMul(CoreBase, IF regime = "bearish" THEN Rat(3, 4) ELSE One)
        /\ (score.Overall = Rat(4, 5) /\ regime = "bullish") =>
               allocation.Amount = CoreBase
        /\ RLess(score.Overall, Rat(2, 5)) => allocation.Amount = RMul(CoreBase, Rat(1, 4))

\* SPY at exactly 0.4 with budget 1000 gets 200 (0.5x), not 100 (0.25x).
C6_Witness ==
    /\ AllocDone /\ ticker = "SPY" /\ score.Overall = Rat(2, 5)
    /\ budget = Rat(1000, 1) /\ allocation.Amount = Rat(200, 1)

\* C7: a ticker outside the core table gets wait with amount 0 when
\* score < 0.6 and buy with exactly budget x 0.10 when score >= 0.6, in every
\* regime and whatever the score above the threshold.
C7_SatelliteGate ==
    (AllocDone /\ ~IsCore) =>
        IF RLess(score.Overall, Rat(3, 5))
        THEN allocation.Action = "wait" /\ allocation.Amount = Zero
        ELSE allocation.Action = "buy" /\ allocation.Amount = RMul(budget, Rat(1, 10))

\* PLTR at exactly 0.6 in a bearish regime with budget 1000 buys 100.
C7_Witness ==
    /\ AllocDone /\ ticker = "PLTR" /\ score.Overall = Rat(3, 5)
    /\ regime = RegimeBearish /\ budget = Rat(1000, 1)
    /\ allocation.Action = "buy" /\ allocation.Amount = Rat(100, 1)

\* C8: for a core ticker calculateAllocation returns action buy with a
\* non-empty reasoning, for every score (0 included) and every regime; never
\* wait or hold.
C8_CoreAlwaysBuys ==
    (AllocDone /\ IsCore) =>
        /\ allocation.Action = "buy"
        /\ allocation.Action \notin {"wait", "hold"}
        /\ allocation.Reasoning.format # ""

\* A core ticker with score 0 in a volatile regime still buys.
C8_Witness ==
    /\ AllocDone /\ ticker = "VTI" /\ score.Overall = Zero
    /\ regime = RegimeVolatile /\ budget = Rat(1000, 1)
    /\ allocation.Action = "buy" /\ allocation.Amount = Rat(25, 1)

\* C27: for a core ticker with score.Overall < 0.6 the regime has no influence
\* on calculateAllocation: a call differing only in the regime returns the
\* same action and the same amount.
C27_RegimeBlindBelowModerate ==
    (AllocDone /\ IsCore /\ RLess(score.Overall, Rat(3, 5))) =>
        \A r \in MarketRegime :
            LET other == calculateAllocation(ticker, score, budget, r)
            IN /\ other.Action = allocation.Action
               /\ other.Amount = allocation.Amount

\* SPY at 0.5 in a bearish regime with budget 1000: 200 (0.5x), not 300 (0.75x).
C27_Witness ==
    /\ AllocDone /\ ticker = "SPY" /\ regime = RegimeBearish
    /\ score.Overall = Rat(1, 2) /\ budget = Rat(1000, 1)
    /\ allocation.Action = "buy" /\ allocation.Amount = Rat(200, 1)

\* C28: for a fixed ticker, regime and budget >= 0 the amount is monotonically
\* non-decreasing in score.Overall.
C28_MonotoneInScore ==
    (AllocDone /\ RLeq(Zero, budget)) =>
        \A o \in Scores :
            RLeq(score.Overall, o) =>
                RLeq(allocation.Amount,
                     calculateAllocation(ticker, [Overall |-> o], budget, regime).Amount)

\* QQQ just below 0.4 with budget 1000 gets 75, and 150 at exactly 0.4.
C28_Witness ==
    /\ AllocDone /\ ticker = "QQQ" /\ regime = RegimeCalm
    /\ score.Overall = Rat(3, 10) /\ budget = Rat(1000, 1)
    /\ allocation.Amount = Rat(75, 1)
    /\ calculateAllocation(ticker, [Overall |-> Rat(2, 5)], budget, regime).Amount = Rat(150, 1)

\* C29: in the bullish high-confidence branch (core ticker, bullish regime,
\* score > 0.8) with budget >= 0 the 1.2x cap never changes the result: the
\* amount is exactly budget x base x 1.1 and never exceeds budget x base x 1.2.
C29_CapNeverBinds ==
    (AllocDone /\ IsCore /\ regime = "bullish"
       /\ RLess(Rat(4, 5), score.Overall) /\ RLeq(Zero, budget)) =>
        /\ allocation.Amount = RMul(CoreBase, Rat(11, 10))
        /\ RLeq(allocation.Amount, RMul(CoreBase, Rat(6, 5)))

\* QQQ, bullish, score 1, budget 1000: 330, under the cap of 360.
C29_Witness ==
    /\ AllocDone /\ ticker = "QQQ" /\ regime = RegimeBullish
    /\ score.Overall = One /\ budget = Rat(1000, 1)
    /\ allocation.Amount = Rat(330, 1)

---------------------------------------------------------------------------
(* Claims about CalculateConfidence (checked under SpecConf).              *)

ConfDone == pc = "conf_done"
WeightSum ==
    RAdd(RAdd(RAdd(weights.CreatorConsensus, weights.TechnicalAlignment),
              weights.VolumeConfirmation), weights.HistoricalAccuracy)
\* four non-negative weights summing to 1.0 within +- 0.01
ValidWeights ==
    /\ RLeq(Zero, weights.CreatorConsensus) /\ RLeq(Zero, weights.TechnicalAlignment)
    /\ RLeq(Zero, weights.VolumeConfirmation) /\ RLeq(Zero, weights.HistoricalAccuracy)
    /\ RLeq(Rat(99, 100), WeightSum) /\ RLeq(WeightSum, Rat(101, 100))
\* non-negative volumes and accuracy ratios in [0, 1]
ValidInputs ==
    /\ inputs.CurrentVolume >= 0 /\ inputs.AvgVolume >= 0
    /\ \A c \in DOMAIN inputs.CreatorAccuracyRates :
          /\ RLeq(Zero, inputs.CreatorAccuracyRates[c])
          /\ RLeq(inputs.CreatorAccuracyRates[c], One)

\* C3 as stated: for valid inputs and weights summing to 1.0 +- 0.01,
\* 0 <= Overall <= 1.
C3_Original ==
    (ConfDone /\ ValidInputs /\ ValidWeights) =>
        (RLeq(Zero, score.Overall) /\ RLeq(score.Overall, One))

\* C3 (amended): for valid inputs and weights summing to 1.0 +- 0.01,
\* 0 <= Overall <= the sum of the four weights (at most 1.01); Overall <= 1
\* whenever the weights sum to at most 1.0.
C3_OverallWithinWeightSum ==
    (ConfDone /\ ValidInputs /\ ValidWeights) =>
        /\ RLeq(Zero, score.Overall)
        /\ RLeq(score.Overall, WeightSum)
        /\ RLeq(WeightSum, One) => RLeq(score.Overall, One)

\* Every component at 1.0 under weights 0.31/0.30/0.20/0.20: Overall = 1.01.
C3_Witness ==
    /\ ConfDone /\ ValidInputs /\ ValidWeights
    /\ WeightSum = Rat(101, 100)
    /\ score.CreatorConsensus = One /\ score.TechnicalAlignment = One
    /\ score.VolumeConfirmation = One /\ score.HistoricalAccuracy = One
    /\ score.Overall = Rat(101, 100)

\* creators of the sentiment map, by label
BullishCreators == {c \in DOMAIN inputs.CreatorSentiments : inputs.CreatorSentiments[c] = "bullish"}
BearishCreators == {c \in DOMAIN inputs.CreatorSentiments : inputs.CreatorSentiments[c] = "bearish"}
AllCreators == DOMAIN inputs.CreatorSentiments

\* C12: for a sentiment map with at least one creator and as many bullish as
\* bearish creators (both counts may be zero), Direction is neutral and
\* CreatorConsensus is exactly 0.5.
C12_SplitVoteIsNeutral ==
    (ConfDone /\ AllCreators # {}
       /\ Cardinality(BullishCreators) = Cardinality(BearishCreators)) =>
        (score.Direction = "neutral" /\ score.CreatorConsensus = Rat(1, 2))

\* One bullish and one bearish creator: neutral, 0.5.
C12_Witness ==
    /\ ConfDone
    /\ Cardinality(BullishCreators) = 1 /\ Cardinality(BearishCreators) = 1
    /\ score.Direction = "neutral" /\ score.CreatorConsensus = Rat(1, 2)

\* C13: when bullish creators strictly outnumber bearish ones, Direction is
\* bullish and CreatorConsensus = bullishCount / total; symmetrically bearish
\* and bearishCount / total; total counts every creator of the map.
C13_MajorityDirection ==
    ConfDone =>
        /\ Cardinality(BullishCreators) > Cardinality(BearishCreators) =>
              /\ score.Direction = "bullish"
              /\ score.CreatorConsensus =
                     Rat(Cardinality(BullishCreators), Cardinality(AllCreators))
        /\ Cardinality(BearishCreators) > Cardinality(BullishCreators) =>
              /\ score.Direction = "bearish"
              /\ score.CreatorConsensus =
                     Rat(Cardinality(BearishCreators), Cardinality(AllCreators))

\* One bearish creator and one neither bullish nor bearish: bearish, 1/2.
C13_Witness ==
    /\ ConfDone
    /\ Cardinality(AllCreators) = 2
    /\ Cardinality(BearishCreators) = 1 /\ Cardinality(BullishCreators) = 0
    /\ score.Direction = "bearish" /\ score.CreatorConsensus = Rat(1, 2)

\* technical signals, by label
SignalCount(label) ==
    Len(SelectSeq(inputs.TechnicalSignals, LAMBDA x : x = label))
NumSignals == Len(inputs.TechnicalSignals)

\* C14: TechnicalAlignment is 0 for an empty signal sequence; otherwise it is
\* (signals equal to Direction) / (all signals) when Direction is bullish or
\* bearish, and max(bullish signals, bearish signals) / (all signals) when
\* Direction is neutral; neutral signals count only in the denominator.
C14_TechnicalAlignment ==
    ConfDone =>
        score.TechnicalAlignment =
            (IF NumSignals = 0 THEN Zero
             ELSE IF score.Direction \in {"bullish", "bearish"}
             THEN Rat(SignalCount(score.Direction), NumSignals)
             ELSE IF SignalCount("bullish") >= SignalCount("bearish")
             THEN Rat(SignalCount("bullish"), NumSignals)
             ELSE Rat(SignalCount("bearish"), NumSignals))

\* Direction bullish, signals bullish and neutral: alignment 1/2.
C14_Witness ==
    /\ ConfDone
    /\ score.Direction = "bullish"
    /\ inputs.TechnicalSignals = <<"bullish", "neutral">>
    /\ score.TechnicalAlignment = Rat(1, 2)

\* C15: VolumeConfirmation is 0.5 when AvgVolume is 0; otherwise, with
\* ratio = CurrentVolume / AvgVolume, it is 1.0 when ratio >= 2, 0.0 when
\* ratio <= 0.5 and (ratio - 0.5) / 1.5 in between: CurrentVolume = AvgVolume
\* gives exactly 1/3.
C15_VolumeConfirmation ==
    ConfDone =>
        LET cur == inputs.CurrentVolume
            avg == inputs.AvgVolume
        IN /\ avg = 0 => score.VolumeConfirmation = Rat(1, 2)
           /\ (avg > 0 /\ cur >= 2 * avg) => score.VolumeConfirmation = One
           /\ (avg > 0 /\ 2 * cur <= avg) => score.VolumeConfirmation = Zero
           /\ (avg > 0 /\ cur < 2 * avg /\ 2 * cur > avg) =>
                 \* (cur/avg - 1/2) / (3/2) = (2 cur - avg) / (3 avg)
                 score.VolumeConfirmation = Rat(2 * cur - avg, 3 * avg)
           /\ (avg > 0 /\ cur = avg) => score.VolumeConfirmation = Rat(1, 3)

\* No average volume but a current volume: the default 0.5.
C15_Witness ==
    /\ ConfDone
    /\ inputs.AvgVolume = 0 /\ inputs.CurrentVolume = 3
    /\ score.VolumeConfirmation = Rat(1, 2)

\* no creators, no signals, zero average volume, empty accuracy map
EmptyInputs ==
    /\ inputs.CreatorSentiments = <<>> /\ inputs.TechnicalSignals = <<>>
    /\ inputs.AvgVolume = 0 /\ inputs.CreatorAccuracyRates = <<>>
\* 0.5 x volumeWeight + 0.5 x accuracyWeight
HalfOfDefaultsWeight ==
    RMul(Rat(1, 2), RAdd(weights.VolumeConfirmation, weights.HistoricalAccuracy))
\* the components CalculateConfidence returns for empty inputs
EmptyComponents ==
    /\ score.Direction = "neutral"
    /\ score.CreatorConsensus = Zero /\ score.TechnicalAlignment = Zero
    /\ score.VolumeConfirmation = Rat(1, 2) /\ score.HistoricalAccuracy = Rat(1, 2)
    /\ score.Overall = HalfOfDefaultsWeight
    /\ weights = DefaultWeights => score.Overall = Rat(1, 5)
    /\ score.Breakdown.format # ""

\* C16 as stated: for empty inputs the components are neutral, 0, 0, 0.5, 0.5,
\* Overall = 0.5 x volumeWeight + 0.5 x accuracyWeight (0.2 by default), a
\* value strictly above 0 and at most 0.5, and Breakdown is non-empty.
C16_Original ==
    (ConfDone /\ EmptyInputs /\ ValidWeights) =>
        /\ EmptyComponents
        /\ RLess(Zero, score.Overall) /\ RLeq(score.Overall, Rat(1, 2))

\* C16 (amended): for empty inputs the components are neutral, 0, 0, 0.5, 0.5,
\* Overall = 0.5 x volumeWeight + 0.5 x accuracyWeight (0.2 by default) and
\* Breakdown is non-empty; Overall is >= 0, and it is strictly above 0 and at
\* most 0.5 when the volume and accuracy weights are not both 0 and sum to at
\* most 1.0.
C16_EmptyInputsScore ==
    (ConfDone /\ EmptyInputs /\ ValidWeights) =>
        /\ EmptyComponents
        /\ RLeq(Zero, score.Overall)
        /\ (RLess(Zero, RAdd(weights.VolumeConfirmation, weights.HistoricalAccuracy))
              /\ RLeq(RAdd(weights.VolumeConfirmation, weights.HistoricalAccuracy), One)) =>
              (RLess(Zero, score.Overall) /\ RLeq(score.Overall, Rat(1, 2)))

\* Empty inputs under the default weights: Overall 0.2, breakdown 0/0/50/50.
C16_Witness ==
    /\ ConfDone /\ EmptyInputs
    /\ weights = DefaultWeights
    /\ score.Overall = Rat(1, 5)
    /\ score.Breakdown.args = <<0, 0, 50, 50>>

\* C25: a creator sentiment label outside {bullish, bearish, neutral} never
\* influences the score: CalculateConfidence returns the same
\* CreatorConsensus, Direction and Overall as for the same inputs with that
\* creator's entry removed.
C25_UnknownLabelIgnored ==
    ConfDone =>
        \A c \in DOMAIN inputs.CreatorSentiments :
            inputs.CreatorSentiments[c] \notin {"bullish", "bearish", "neutral"} =>
                LET rest == [k \in (DOMAIN inputs.CreatorSentiments) \ {c} |->
                                inputs.CreatorSentiments[k]]
                    without == CalculateConfidence(
                                   [inputs EXCEPT !.CreatorSentiments = rest], weights)
                IN /\ without.CreatorConsensus = score.CreatorConsensus
                   /\ without.Direction = score.Direction
                   /\ without.Overall = score.Overall

---------------------------------------------------------------------------
(* Claims about GetTechnicalSignals (checked under SpecSig).               *)

SigDone == pc = "sig_done"
\* each rule's inputs are present (a zero input counts as absent)
RsiRulePresent == indicators.rsi # 0
CrossRulePresent == indicators.sma50 # 0 /\ indicators.sma200 # 0
TrendRulePresent == indicators.sma200 # 0 /\ indicators.currentPrice # 0
MacdRulePresent == indicators.macd # 0 /\ indicators.macdSignal # 0
\* each rule's signal, as the claim words it
RsiRuleSignal ==
    IF indicators.rsi < 30 THEN "bullish"
    ELSE IF indicators.rsi > 70 THEN "bearish" ELSE "neutral"
CrossRuleSignal == IF indicators.sma50 > indicators.sma200 THEN "bullish" ELSE "bearish"
TrendRuleSignal == IF indicators.currentPrice > indicators.sma200 THEN "bullish" ELSE "bearish"
MacdRuleSignal == IF indicators.macd > indicators.macdSignal THEN "bullish" ELSE "bearish"

\* C23: GetTechnicalSignals returns, in rule order (RSI, SMA50 vs SMA200,
\* price vs SMA200, MACD), one signal for each rule whose inputs are present
\* and none for the others, so between 0 and 4 signals; RSI: bullish below 30,
\* bearish above 70, neutral otherwise (30 and 70 included); the other rules:
\* bullish when the first value is strictly larger, bearish otherwise.
C23_SignalsPerRule ==
    SigDone =>
        /\ returnedSignals =
              (IF RsiRulePresent THEN <<RsiRuleSignal>> ELSE <<>>)
              \o (IF CrossRulePresent THEN <<CrossRuleSignal>> ELSE <<>>)
              \o (IF TrendRulePresent THEN <<TrendRuleSignal>> ELSE <<>>)
              \o (IF MacdRulePresent THEN <<MacdRuleSignal>> ELSE <<>>)
        /\ Len(returnedSignals) \in 0..4
        /\ indicators.rsi \in {30, 70} => returnedSignals[1] = "neutral"

\* RSI exactly 30, SMA50 = SMA200, price above SMA200, MACD above its signal:
\* neutral, bearish, bullish, bullish.
C23_Witness ==
    /\ SigDone
    /\ indicators.rsi = 30
    /\ indicators.sma50 = 1 /\ indicators.sma200 = 1 /\ indicators.currentPrice = 2
    /\ indicators.macd = 1 /\ indicators.macdSignal = -1
    /\ returnedSignals = <<"neutral", "bearish", "bullish", "bullish">>

---------------------------------------------------------------------------
(* Claims about GenerateRecommendations and detectMarketRegime (Spec).     *)

\* C2: every recommendation GenerateRecommendations returns whose action is
\* "wait" has amount 0.
C2_WaitHasZeroAmount ==
    \A i \in 1..Len(recommendations) :
        recommendations[i].Action = "wait" => recommendations[i].Amount = Zero

\* The volatile run returned its single wait recommendation.
C2_Witness ==
    /\ pc = "returned" /\ err = "nil"
    /\ Len(recommendations) = 1
    /\ recommendations[1].Action = "wait"
    /\ recommendations[1].Amount = Zero
    /\ budget = Rat(1000, 1)

\* C4: when the detected regime is volatile, GenerateRecommendations returns
\* exactly one recommendation, wait with amount 0, and no per-ticker step
\* happens in that run: no tracked-ticker lookup, no scoring, no allocation.
C4_VolatileShortCircuit ==
    regime = "volatile" =>
        /\ trace \subseteq {"detectMarketRegime"}
        /\ tickers = <<>> /\ idx = 0 /\ fetched = <<>>
        /\ pc \in {"regime", "returned", "done"}
        /\ pc \in {"returned", "done"} =>
              /\ err = "nil"
              /\ Len(recommendations) = 1
              /\ recommendations[1].Action = "wait"
              /\ recommendations[1].Amount = Zero

\* Default engine, VIX 26: the run returned one recommendation carrying VIX 26.
C4_Witness ==
    /\ pc = "returned" /\ regime = "volatile"
    /\ engine.vixHighThreshold = Rat(25, 1)
    /\ Len(recommendations) = 1
    /\ recommendations[1].VIXLevel = Rat(26, 1)
    /\ recommendations[1].MarketRegime = "volatile"

\* the regime was detected with a live context, so db's answers were the ones read
Detected == pc = "regime" /\ ~ctxDone
VixMissing == db.vix.err = "ErrNoRows" \/ (db.vix.err = "nil" /\ ~db.vix.Valid)
VixPresent == db.vix.err = "nil" /\ db.vix.Valid

\* C9: when the VIX value is missing, regime detection returns calm with
\* vixLevel 0, whatever the SPY RSI is.
C9_MissingVixIsCalm ==
    (Detected /\ VixMissing) => (regime = "calm" /\ vix = Zero)

\* C10: a present VIX level strictly above the engine's threshold gives
\* volatile together with that level, whatever the SPY RSI is; a level equal
\* to the threshold is not volatile.
C10_HighVixIsVolatile ==
    (Detected /\ VixPresent) =>
        /\ RLess(engine.vixHighThreshold, db.vix.Value) =>
              (regime = "volatile" /\ vix = db.vix.Value)
        /\ db.vix.Value = engine.vixHighThreshold => regime # "volatile"

\* Default engine, VIX 26 and an oversold SPY RSI of 25: volatile, not bullish.
C10_Witness ==
    /\ Detected /\ VixPresent
    /\ engine.vixHighThreshold = Rat(25, 1)
    /\ db.vix.Value = Rat(26, 1)
    /\ db.spyRsi.err = "nil" /\ db.spyRsi.Valid /\ db.spyRsi.Value = Rat(25, 1)
    /\ regime = "volatile" /\ vix = Rat(26, 1)

RsiPresent == db.spyRsi.err = "nil" /\ db.spyRsi.Valid

\* C11: with the VIX present and not above the VIX threshold, the regime is
\* bearish if the SPY RSI is strictly above the engine's overbought threshold,
\* else bullish if it is strictly below the engine's oversold threshold, else
\* calm (RSI on a threshold, between them, or unavailable); the thresholds are
\* the ones the engine was built with.
C11_RsiRegime ==
    (Detected /\ VixPresent /\ ~RLess(engine.vixHighThreshold, db.vix.Value)) =>
        regime = (IF RsiPresent /\ RLess(engine.rsiOverbought, db.spyRsi.Value)
                  THEN "bearish"
                  ELSE IF RsiPresent /\ RLess(db.spyRsi.Value, engine.rsiOversold)
                  THEN "bullish"
                  ELSE "calm")

\* An engine built with overbought 60: VIX 20 and SPY RSI 65 give bearish
\* (calm under the default 70).
C11_Witness ==
    /\ Detected /\ VixPresent
    /\ engine.vixHighThreshold = Rat(20, 1) /\ engine.rsiOverbought = Rat(60, 1)
    /\ db.vix.Value = Rat(20, 1)
    /\ RsiPresent /\ db.spyRsi.Value = Rat(65, 1)
    /\ regime = "bearish"

\* GenerateRecommendations returned its list for a regime that is not volatile
ReturnedList == pc = "returned" /\ err = "nil" /\ regime # "volatile"
\* the tickers of the returned recommendations, in order
RecommendedTickers == [i \in 1..Len(recommendations) |-> recommendations[i].Ticker]

\* C17: when the regime is not volatile, the returned list holds exactly one
\* recommendation per tracked ticker, in tracked-list order, also for a ticker
\* whose indicators, creator content and volume data are all absent.
C17_EveryTrackedTickerAppears ==
    ReturnedList =>
        /\ Len(tickers) > 0
        /\ RecommendedTickers = tickers
        /\ Len(fetched) = Len(tickers)

\* QQQ had no data at all and still got its recommendation, second of four
\* (score 0.2: 0.25 x 300 = 75).
C17_Witness ==
    /\ ReturnedList
    /\ Len(recommendations) = 4
    /\ fetched[2] = AbsentRows
    /\ recommendations[2].Ticker = "QQQ"
    /\ recommendations[2].ConfidenceScore = Rat(1, 5)
    /\ recommendations[2].Amount = Rat(75, 1)

\* the list written in the tracked_tickers value the model's config store holds
ConfiguredTickers == <<"AAPL", "SPY">>

\* C18: the tickers recommended are the configured tracked-ticker list: with a
\* tracked_tickers value listing T the non-volatile output has exactly the
\* tickers of T in the order of T; the default list SPY, QQQ, VOO, VTI is used
\* only when no value is configured.
C18_ConfiguredTickersUsed ==
    ReturnedList =>
        RecommendedTickers =
            (IF db.trackedTickers.err = "nil"
             THEN ConfiguredTickers
             ELSE <<"SPY", "QQQ", "VOO", "VTI">>)

\* C19: a ticker whose scoring failed is left out of the returned list, every
\* other tracked ticker has its recommendation, and no error is returned.
C19_FailedTickerIsSkipped ==
    (pc = "returned" /\ regime # "volatile" /\ Len(tickers) > 0) =>
        /\ err = "nil"
        /\ \A i \in 1..Len(fetched) :
              IF QueryFailed(fetched[i])
              THEN \A j \in 1..Len(recommendations) :
                      recommendations[j].Ticker # tickers[i]
              ELSE \E j \in 1..Len(recommendations) :
                      recommendations[j].Ticker = tickers[i]

\* C20: once the engine is constructed, no failure of the database makes
\* GenerateRecommendations return an error.
C20_NeverAborts ==
    pc = "returned" => err = "nil"

\* C21: NewEngine given a negative threshold does not yield a usable engine:
\* GenerateRecommendations never runs with an invalid configuration.
C21_InvalidConfigNeverRuns ==
    "detectMarketRegime" \in trace =>
        /\ RLeq(Zero, engine.vixHighThreshold)
        /\ RLeq(Zero, engine.rsiOverbought)
        /\ RLeq(Zero, engine.rsiOversold)

\* C22: when the context is cancelled while the tracked tickers are iterated,
\* no ticker is scored or allocated after the cancellation: every ticker the
\* loop went through was scored from rows read with a live context.
C22_NoScoringAfterCancel ==
    \A i \in 1..Len(fetched) : fetched[i] # FailedRows

\* the score of the NoRsiRows ticker had its SMA, price and MACD rules
\* contributed their signals (all three bullish)
ScoreWithOtherSignals ==
    CalculateConfidence(
        [TickerInputs("SPY", NoRsiRows) EXCEPT
            !.TechnicalSignals = GetTechnicalSignals(0, 450, 440, 3, 2, 455)],
        DefaultWeights).Overall

\* C24: in the per-ticker pipeline each technical rule contributes its signal
\* whenever its own inputs are present: for a ticker whose RSI is absent but
\* whose SMA50, SMA200, price and MACD values are present, those rules'
\* signals enter the confidence score.
C24_SignalsWithoutRsi ==
    \A i \in 1..Len(recommendations) :
        (regime # "volatile" /\ fetched[i] = NoRsiRows) =>
            recommendations[i].ConfidenceScore = ScoreWithOtherSignals

VixErrored == "detectMarketRegime" \in trace /\ db.vix.err = "error"

\* C30: if the VIX query fails with a database error, GenerateRecommendations
\* does not take the volatile short-circuit and does not abort because of it:
\* it goes on with regime calm and VIX level 0 (an error can then only come
\* from the tracked-ticker query), and every recommendation it returns
\* carries regime calm and VIXLevel 0.
C30_DetectionErrorIsCalm ==
    VixErrored =>
        /\ regime = "calm" /\ vix = Zero
        /\ \A i \in 1..Len(recommendations) :
              /\ recommendations[i].MarketRegime = "calm"
              /\ recommendations[i].VIXLevel = Zero
        /\ err # "nil" => (ctxDone \/ db.trackedTickers.err = "error")
        /\ (pc \in {"returned", "done"} /\ err = "nil") =>
              (Len(recommendations) = 4 /\ "calculateAllocation" \in trace)

\* Negative VIX threshold, overbought SPY RSI, failing VIX query: four calm
\* recommendations were returned.
C30_Witness ==
    /\ VixErrored /\ pc = "returned" /\ err = "nil"
    /\ engine.vixHighThreshold = Rat(-1, 1)
    /\ db.spyRsi.err = "nil" /\ db.spyRsi.Valid /\ db.spyRsi.Value = Rat(75, 1)
    /\ Len(recommendations) = 4
    /\ recommendations[4].MarketRegime = "calm"
    /\ recommendations[4].VIXLevel = Zero

====
